---- MODULE Spec2Model ----
(***************************************************************************)
(* A model of pyNN/random.py: the wrapped random sources (WrappedRNG,      *)
(* NumpyRNG), masked draws in parallel-safe and non-parallel-safe mode,    *)
(* the rejection-sampling helper WrappedRNG._clipped, the clamp            *)
(* normal_clipped_to_boundary, the NativeRNG marker, and                   *)
(* RandomDistribution: its construction, next and lazily_evaluate.         *)
(*                                                                         *)
(* The generator wrapped by NumpyRNG (np.random.RandomState) is modelled   *)
(* as a deterministic stream: a full-period congruential generator whose   *)
(* state is an integer, so that equal seeds give equal streams, distinct   *)
(* seeds give streams that differ at every position, and the values at     *)
(* distinct positions of one stream are distinct within the bounds.        *)
(***************************************************************************)
EXTENDS Integers, Sequences, FiniteSets, TLC

VARIABLES src, rng, drawn, hist, last, clip, bnd, dist, native, call,
          gsl, copy, shared, state

vars == <<src, rng, drawn, hist, last, clip, bnd, dist, native, call,
          gsl, copy, shared, state>>

----------------------------------------------------------------------------
(* Bounds of the model *)

MaxN == 2          \* largest sample count / shape dimension requested
MaxSeed == 2       \* seeds are 1..MaxSeed
MaxCalls == 2      \* calls made on the driven source in Spec
MaxPairCalls == 2  \* calls per source explored in PairSpec
MaxSize == 2       \* largest size handed to the rejection-sampling helper
MaxKeys == 5       \* most parameters handed to a RandomDistribution
MaxDims == 2       \* most dimensions of a shape handed to lazily_evaluate
MaxStateCalls == 4 \* operations performed on the simulator state

----------------------------------------------------------------------------
(* Python's None for an optional integer: n is << >> (None) or <<k>> *)

None == << >>

Some(k) == <<k>>

RECURSIVE Product(_)
Product(shape) ==                    \* reduce(operator.mul, shape)
    IF Len(shape) = 1 THEN shape[1] ELSE shape[1] * Product(Tail(shape))

----------------------------------------------------------------------------
(* Masks: a boolean array (entries 0/1), an integer index array, a single  *)
(* integer index (lazily_evaluate only), or no mask.                       *)

NoMask == [dtype |-> "none", v |-> << >>]

BoolMask(bits) == [dtype |-> "bool", v |-> bits]

IntMask(idx) == [dtype |-> "int", v |-> idx]

ScalarIndex(i) == [dtype |-> "scalar", v |-> <<i>>]

SelectedPositions(mask, n) ==        \* the 0-based positions of 0..n-1 a mask selects, in its order
    IF mask.dtype = "bool"
    THEN LET On(j) == mask.v[j + 1] = 1
         IN  SelectSeq([i \in 1..n |-> i - 1], On)
    ELSE IF mask.dtype = "none" THEN [i \in 1..n |-> i - 1]
    ELSE mask.v

RECURSIVE SeqSum(_)
SeqSum(s) == IF s = << >> THEN 0 ELSE s[1] + SeqSum(Tail(s))

MaskSum(mask) == SeqSum(mask.v)      \* mask.sum() of a boolean mask

MaskSize(mask) == Len(mask.v)        \* mask.size

RECURSIVE TakeBool(_, _)
TakeBool(arr, bits) ==               \* arr[bits], bits a boolean array of the same length
    IF arr = << >> THEN << >>
    ELSE IF bits[1] = 1 THEN <<arr[1]>> \o TakeBool(Tail(arr), Tail(bits))
         ELSE TakeBool(Tail(arr), Tail(bits))

TakeInt(arr, idx) == [i \in 1..Len(idx) |-> arr[idx[i] + 1]]   \* arr[idx], 0-based indices

IndexFails(arr, mask) ==             \* numpy raises IndexError on arr[mask]
    IF mask.dtype = "bool" THEN Len(mask.v) # Len(arr)
    ELSE \E i \in 1..Len(mask.v) : mask.v[i] >= Len(arr)

ApplyMask(arr, mask) ==              \* rarr[mask]
    IF mask.dtype = "bool" THEN TakeBool(arr, mask.v) ELSE TakeInt(arr, mask.v)

----------------------------------------------------------------------------
(* The wrapped generator: np.random.RandomState seeded with an integer *)

RngModulus == 32

RngSeeded(seed) == (7 * seed) % RngModulus       \* self.rng.seed(self.seed)

RngStep(g) == (5 * g + 3) % RngModulus           \* one draw advances the state

RECURSIVE RngAdvance(_, _)
RngAdvance(g, k) == IF k = 0 THEN g ELSE RngAdvance(RngStep(g), k - 1)

RngValues(g, k) == [i \in 1..k |-> RngAdvance(g, i)]   \* the next k values of the stream

----------------------------------------------------------------------------
(* Sources.  Two source objects, one per cooperating process. *)

Sources == {"a", "b"}

get_mpi_config(s) == IF s = "a" THEN 0 ELSE 1       \* the rank of the process owning s

Seeds == 1..MaxSeed

WrappedRNG_init_rank(seed, parallel_safe, rank) ==  \* variant: the rank is added in either mode
    [given         |-> seed,
     seed          |-> seed + rank,
     parallel_safe |-> parallel_safe,
     mpi_rank      |-> rank]

WrappedRNG_init_plain(seed, parallel_safe, rank) == \* variant: the rank is never added
    [given         |-> seed,
     seed          |-> seed,
     parallel_safe |-> parallel_safe,
     mpi_rank      |-> rank]

WrappedRNG_init(seed, parallel_safe, rank) ==       \* the attributes after WrappedRNG.__init__
    [given         |-> seed,
     seed          |-> IF ~parallel_safe THEN seed + rank ELSE seed,
     parallel_safe |-> parallel_safe,
     mpi_rank      |-> rank]

NumpyRNG_init(obj) == RngSeeded(obj.seed)           \* the generator after NumpyRNG.__init__

----------------------------------------------------------------------------
(* NumpyRNG._next for the default distribution ('uniform', low 0, high 1): *)
(* rng.uniform(size=n) takes the next n values of the stream.              *)

NumpyRNG_next_extra(g, n) ==          \* variant: one value too many is consumed
    [vals |-> RngValues(g, n), g |-> RngAdvance(g, n + 1)]

NumpyRNG_next(g, n) == [vals |-> RngValues(g, n), g |-> RngAdvance(g, n)]

(* WrappedRNG.next, lines 132-149: the count handed to _next and the raw   *)
(* array.  n is the local n after line 144/146.                            *)

BoolMaskSizeError(n, mask) == mask.dtype = "bool" /\ MaskSize(mask) # n

MaskedCount_any(parallel_safe, n, mask) ==   \* variant: reduces the count in either mode
    IF mask.dtype # "none"
    THEN IF mask.dtype = "bool" THEN MaskSum(mask)
         ELSE IF mask.dtype = "int" THEN MaskSize(mask) ELSE n
    ELSE n

MaskedCount_size(parallel_safe, n, mask) ==  \* variant: the size of a boolean mask, not its sum
    IF mask.dtype # "none" /\ ~parallel_safe
    THEN IF mask.dtype \in {"bool", "int"} THEN MaskSize(mask) ELSE n
    ELSE n

MaskedCount(parallel_safe, n, mask) ==
    IF mask.dtype # "none" /\ ~parallel_safe
    THEN IF mask.dtype = "bool" THEN MaskSum(mask)
         ELSE IF mask.dtype = "int" THEN MaskSize(mask) ELSE n
    ELSE n

NextDraw_falsy(parallel_safe, g, n, mask) == \* variant: n == 0 is taken for "n not given"
    IF n = None \/ n = Some(0)
    THEN LET d == NumpyRNG_next(g, 1)
         IN  [err |-> "", rarr |-> d.vals, g |-> d.g, n |-> n]
    ELSE IF n[1] > 0
    THEN IF BoolMaskSizeError(n[1], mask)
         THEN [err |-> "ValueError", rarr |-> << >>, g |-> g, n |-> n]
         ELSE LET m == MaskedCount(parallel_safe, n[1], mask)
                  d == NumpyRNG_next(g, m)
              IN  [err |-> "", rarr |-> d.vals, g |-> d.g, n |-> Some(m)]
    ELSE [err |-> "ValueError", rarr |-> << >>, g |-> g, n |-> n]

NextDraw(parallel_safe, g, n, mask) ==
    IF n = Some(0) THEN [err |-> "", rarr |-> << >>, g |-> g, n |-> n]
    ELSE IF n = None
    THEN LET d == NumpyRNG_next(g, 1)
         IN  [err |-> "", rarr |-> d.vals, g |-> d.g, n |-> n]
    ELSE IF n[1] > 0
    THEN IF BoolMaskSizeError(n[1], mask)
         THEN [err |-> "ValueError", rarr |-> << >>, g |-> g, n |-> n]
         ELSE LET m == MaskedCount(parallel_safe, n[1], mask)
                  d == NumpyRNG_next(g, m)
              IN  [err |-> "", rarr |-> d.vals, g |-> d.g, n |-> Some(m)]
    ELSE [err |-> "ValueError", rarr |-> << >>, g |-> g, n |-> n]

Raised(err, g, took) ==
    [status |-> err, scalar |-> FALSE, vals |-> << >>, g |-> g, took |-> took]

StripsMask_never(parallel_safe, mask) == FALSE   \* variant: the mask is never applied

StripsMask(parallel_safe, mask) == parallel_safe /\ mask.dtype # "none"

(* WrappedRNG.next: the result, the generator afterwards and the number of *)
(* values taken from the stream.                                           *)
WrappedRNG_next(parallel_safe, g, n, mask) ==
    LET d == NextDraw(parallel_safe, g, n, mask)
    IN  IF d.err # "" THEN Raised(d.err, d.g, 0)
        ELSE IF StripsMask(parallel_safe, mask) /\ IndexFails(d.rarr, mask)
        THEN Raised("IndexError", d.g, Len(d.rarr))
        ELSE LET rarr == IF StripsMask(parallel_safe, mask)
                         THEN ApplyMask(d.rarr, mask) ELSE d.rarr
             IN  IF d.n = None
                 THEN IF rarr = << >> THEN Raised("IndexError", d.g, Len(d.rarr))
                      ELSE [status |-> "ok", scalar |-> TRUE, vals |-> <<rarr[1]>>,
                            g |-> d.g, took |-> Len(d.rarr)]
                 ELSE [status |-> "ok", scalar |-> FALSE, vals |-> rarr,
                       g |-> d.g, took |-> Len(d.rarr)]

(* RandomDistribution.next *)
RandomDistribution_next(parallel_safe, g, n, mask) ==
    WrappedRNG_next(parallel_safe, g, n, mask)

----------------------------------------------------------------------------
(* RandomDistribution.lazily_evaluate *)

partial_shape_size(mask, shape) ==   \* variant: the size of the mask, whatever it selects
    IF mask.dtype = "scalar" THEN << >> ELSE <<MaskSize(mask)>>

partial_shape(mask, shape) ==        \* lazyarray.partial_shape on a one-dimensional shape
    IF mask.dtype = "scalar" THEN << >>
    ELSE IF mask.dtype = "bool" THEN <<MaskSum(mask)>>
    ELSE <<MaskSize(mask)>>

LazyCount_whole(mask, shape) == Product(shape)   \* variant: the whole shape is drawn

LazyCount(mask, shape) ==            \* the n handed to self.next
    IF mask.dtype = "none" THEN Product(shape)
    ELSE LET p_shape == partial_shape(mask, shape)
         IN  IF p_shape # << >> THEN Product(p_shape) ELSE 1

lazily_evaluate(parallel_safe, g, mask, shape) ==
    LET n == LazyCount(mask, shape)
        r == RandomDistribution_next(parallel_safe, g, Some(n), NoMask)
    IN  IF r.status # "ok" THEN r @@ [rshape |-> << >>]
        ELSE IF mask.dtype = "none"
        THEN IF n = 1
             THEN [r EXCEPT !.scalar = (Tail(shape) = << >>)] @@ [rshape |-> Tail(shape)]
             ELSE r @@ [rshape |-> shape]
        ELSE r @@ [rshape |-> partial_shape(mask, shape)]

----------------------------------------------------------------------------
(* WrappedRNG._clipped: rejection sampling.  gen is any generator of raw   *)
(* values; positions of res are 1..size.                                   *)

MAX_REDRAWS == 1000

ClipLow == 1       \* low

ClipHigh == 2      \* high

RawVals == (ClipLow - 1)..(ClipHigh + 1)     \* what gen may produce

OutOfRange_high(v, low, high) == v > high    \* variant: the lower bound is not tested

OutOfRange(v, low, high) == v < low \/ v > high

LimitExceeded_late(iterations) == iterations > 2 * MAX_REDRAWS   \* variant: a later limit

LimitExceeded(iterations) == iterations > MAX_REDRAWS

Where(vals, low, high) ==            \* np.where((vals > high) | (vals < low))[0], ascending
    LET Bad(p) == OutOfRange(vals[p], low, high)
    IN  SelectSeq([p \in 1..Len(vals) |-> p], Bad)

Splice_front(res, idx, redrawn) ==   \* variant: the redrawn values go to the front of res
    [p \in 1..Len(res) |-> IF p <= Len(redrawn) THEN redrawn[p] ELSE res[p]]

Splice(res, idx, redrawn) ==         \* res[idx] = redrawn
    [p \in 1..Len(res) |->
        IF \E j \in 1..Len(idx) : idx[j] = p
        THEN redrawn[CHOOSE j \in 1..Len(idx) : idx[j] = p]
        ELSE res[p]]

StillInvalid(idx, redrawn, low, high) ==     \* idx[np.where(redrawn out of range)[0]]
    LET w == Where(redrawn, low, high)
    IN  [j \in 1..Len(w) |-> idx[w[j]]]

GenLen(size) == IF size = None THEN 1 ELSE size[1]   \* values in gen(size)

ClipIdle ==
    [pc |-> "idle", size |-> None, res |-> << >>, idx |-> << >>,
     iterations |-> 0, gencalls |-> 0, asked |-> 0]

ClipSizes == {None} \cup {Some(k) : k \in 0..MaxSize}

----------------------------------------------------------------------------
(* NumpyRNG.normal_clipped_to_boundary: one draw of raw values, each set   *)
(* to the nearest bound.                                                   *)

np_minimum(x, y) == IF x <= y THEN x ELSE y

np_maximum(x, y) == IF x >= y THEN x ELSE y

ToBoundary_upper(v, low, high) == np_minimum(v, high)   \* variant: only the upper bound is applied

ToBoundary(v, low, high) == np_maximum(np_minimum(v, high), low)

BoundaryIdle ==
    [pc |-> "idle", size |-> None, low |-> 0, high |-> 0,
     raw |-> << >>, res |-> << >>, gencalls |-> 0]

BoundaryLimits ==                    \* the (low, high) arguments, low <= high
    {lh \in RawVals \X RawVals : lh[1] <= lh[2]}

----------------------------------------------------------------------------
(* The catalog of distributions and the translation table of NumpyRNG.     *)
(* A dict is a function whose domain is its key set.                       *)

available_distributions ==
    [binomial                   |-> <<"n", "p">>,
     gamma                      |-> <<"k", "theta">>,
     exponential                |-> <<"beta">>,
     lognormal                  |-> <<"mu", "sigma">>,
     normal                     |-> <<"mu", "sigma">>,
     normal_clipped             |-> <<"mu", "sigma", "low", "high">>,
     normal_clipped_to_boundary |-> <<"mu", "sigma", "low", "high">>,
     poisson                    |-> <<"lambda_">>,
     uniform                    |-> <<"low", "high">>,
     uniform_int                |-> <<"low", "high">>,
     vonmises                   |-> <<"mu", "kappa">>]

NumpyRNG_translations ==
    [binomial       |-> [f |-> "binomial",    parameter_map |-> [n |-> "n", p |-> "p"]],
     gamma          |-> [f |-> "gamma",       parameter_map |-> [k |-> "shape", theta |-> "scale"]],
     exponential    |-> [f |-> "exponential", parameter_map |-> [beta |-> "scale"]],
     lognormal      |-> [f |-> "lognormal",   parameter_map |-> [mu |-> "mean", sigma |-> "sigma"]],
     normal         |-> [f |-> "normal",      parameter_map |-> [mu |-> "loc", sigma |-> "scale"]],
     normal_clipped |-> [f |-> "normal_clipped",
                         parameter_map |-> [mu |-> "mu", sigma |-> "sigma",
                                            low |-> "low", high |-> "high"]],
     normal_clipped_to_boundary |->
                        [f |-> "normal_clipped_to_boundary",
                         parameter_map |-> [mu |-> "mu", sigma |-> "sigma",
                                            low |-> "low", high |-> "high"]],
     poisson        |-> [f |-> "poisson",     parameter_map |-> [lambda_ |-> "lam"]],
     uniform        |-> [f |-> "uniform",     parameter_map |-> [low |-> "low", high |-> "high"]],
     uniform_int    |-> [f |-> "randint",     parameter_map |-> [low |-> "low", high |-> "high"]],
     vonmises       |-> [f |-> "vonmises",    parameter_map |-> [mu |-> "mu", kappa |-> "kappa"]]]

GSLRNG_translations ==
    [binomial       |-> [f |-> "binomial",    parameter_map |-> [n |-> "n", p |-> "p"]],
     gamma          |-> [f |-> "gamma",       parameter_map |-> [k |-> "k", theta |-> "theta"]],
     exponential    |-> [f |-> "exponential", parameter_map |-> [beta |-> "mu"]],
     lognormal      |-> [f |-> "lognormal",   parameter_map |-> [mu |-> "zeta", sigma |-> "sigma"]],
     normal         |-> [f |-> "normal",      parameter_map |-> [mu |-> "mu", sigma |-> "sigma"]],
     normal_clipped |-> [f |-> "normal_clipped",
                         parameter_map |-> [mu |-> "mu", sigma |-> "sigma",
                                            low |-> "low", high |-> "high"]],
     poisson        |-> [f |-> "poisson",     parameter_map |-> [lambda_ |-> "mu"]],
     uniform        |-> [f |-> "flat",        parameter_map |-> [low |-> "a", high |-> "b"]],
     uniform_int    |-> [f |-> "uniform_int", parameter_map |-> [low |-> "low", high |-> "high"]]]

SetOf(seq) == {seq[i] : i \in 1..Len(seq)}     \* set(seq)

EmptyDict == << >>

----------------------------------------------------------------------------
(* RandomDistribution.__init__ and _resolve_parameters.  positional is     *)
(* None or Some of a tuple or of a dict; named is a dict.                  *)

Tuple(v) == [type |-> "tuple", v |-> v]

Dict(v) == [type |-> "dict", v |-> v]         \* a dict handed over as parameters_pos; v its values

PyLen(x) == Len(x.v)                          \* len(x)

Resolved(parameters) == [status |-> "ok", arg |-> "", parameters |-> parameters]

Rejected(err, arg) == [status |-> err, arg |-> arg, parameters |-> EmptyDict]

KnownName_any(name) == TRUE          \* variant: every name is taken for a catalog name

KnownName(name) == name \in DOMAIN available_distributions

KeysMatch_subset(keys, expected) == keys \subseteq SetOf(expected)   \* variant: missing keys pass

KeysMatch(keys, expected) == keys = SetOf(expected)

ArityMatches_atmost(positional, expected) == PyLen(positional) <= Len(expected)  \* variant

ArityMatches(positional, expected) == PyLen(positional) = Len(expected)

Zip(names, values) ==                \* dict(zip(names, values)); zip stops at the shorter
    LET m == IF Len(names) <= Len(values) THEN Len(names) ELSE Len(values)
    IN  [k \in {names[i] : i \in 1..m} |-> values[CHOOSE i \in 1..m : names[i] = k]]

resolve_parameters(name, positional, named) ==
    IF positional = None
    THEN IF ~KnownName(name) THEN Rejected("KeyError", "distribution")
         ELSE IF ~KeysMatch(DOMAIN named, available_distributions[name])
         THEN Rejected("KeyError", "parameterization")
         ELSE Resolved(named)
    ELSE IF DOMAIN named = {}
    THEN IF positional[1].type = "dict" THEN Rejected("TypeError", "positional")
         ELSE IF ~KnownName(name) THEN Rejected("KeyError", "distribution")
         ELSE IF ~ArityMatches(positional[1], available_distributions[name])
         THEN Rejected("ValueError", "arity")
         ELSE Resolved(Zip(available_distributions[name], positional[1].v))
    ELSE Rejected("ValueError", "mixed")

(* The rng argument: None (a fresh NumpyRNG() seeded by the system, whose  *)
(* generator state is g0), a wrapped source, or the NativeRNG object.      *)
RandomDistribution_init(name, positional, rngarg, named, g0) ==
    LET r == resolve_parameters(name, positional, named)
    IN  [status     |-> r.status,
         arg        |-> r.arg,
         name       |-> name,
         parameters |-> r.parameters,
         rng        |-> IF r.status # "ok" THEN ""
                        ELSE IF rngarg = None THEN "default" ELSE rngarg[1],
         g          |-> IF r.status = "ok" /\ rngarg = None THEN g0 ELSE 0,
         positional |-> positional,
         named      |-> named]

NoDistribution ==
    [status |-> "none", arg |-> "", name |-> "", parameters |-> EmptyDict, rng |-> "",
     g |-> 0, positional |-> None, named |-> EmptyDict]

(* AbstractRNG.__init__ for the NativeRNG object, and what its next last did *)
NativeRNG_init ==
    [seed |-> None, calls |-> 0, op |-> "none", status |-> "none", vals |-> << >>]

(* The arguments of the latest call that named a distribution *)
NoArguments == [via |-> "none", distribution |-> None, parameters |-> None]

----------------------------------------------------------------------------
(* next with a named distribution.  A sample of a non-truncated            *)
(* distribution is one value of the stream; the truncated ones draw normal *)
(* values from the stream and clip them to the low and high parameters.    *)

(* lines 128-131 *)
DefaultDistribution(distribution, parameters) ==
    IF distribution = None
    THEN [distribution |-> "uniform",
          parameters   |-> IF parameters = None THEN Some([low |-> 0, high |-> 1])
                           ELSE parameters]
    ELSE [distribution |-> distribution[1], parameters |-> parameters]

NoValues(err, g) == [err |-> err, vals |-> << >>, g |-> g, took |-> 0]

(* WrappedRNG._clipped with size an integer and gen drawing from the stream *)
RECURSIVE ClippedLoop(_, _, _, _, _, _, _)
ClippedLoop(g, res, idx, iterations, took, low, high) ==
    IF Len(idx) = 0 THEN [err |-> "", vals |-> res, g |-> g, took |-> took]
    ELSE IF LimitExceeded(iterations) THEN [err |-> "Exception", vals |-> << >>, g |-> g, took |-> took]
    ELSE LET redrawn == RngValues(g, Len(idx))
         IN  ClippedLoop(RngAdvance(g, Len(idx)), Splice(res, idx, redrawn),
                         StillInvalid(idx, redrawn, low, high), iterations + 1,
                         took + Len(idx), low, high)

NumpyRNG_normal_clipped(g, low, high, size) ==
    LET res == RngValues(g, size)
    IN  ClippedLoop(RngAdvance(g, size), res, Where(res, low, high), 0, size, low, high)

NumpyRNG_normal_clipped_to_boundary(g, low, high, size) ==
    LET res == RngValues(g, size)
    IN  [err |-> "", vals |-> [p \in 1..size |-> ToBoundary(res[p], low, high)],
         g |-> RngAdvance(g, size), took |-> size]

Translated_any(distribution) == TRUE     \* variant: no name is refused by the lookup

Translated(distribution) == distribution \in DOMAIN NumpyRNG_translations

NumpyRNG__next_peek(g, distribution, n, parameters) ==   \* variant: the generator is not advanced
    [err |-> "", vals |-> RngValues(g, n), g |-> g, took |-> n]

(* NumpyRNG._next(distribution, n, parameters); parameters is None or Some dict *)
NumpyRNG__next(g, distribution, n, parameters) ==
    IF ~Translated(distribution) THEN NoValues("KeyError", g)
    ELSE IF parameters = None THEN NoValues("AttributeError", g)
    ELSE IF DOMAIN parameters[1] # DOMAIN NumpyRNG_translations[distribution].parameter_map
    THEN NoValues("KeyError", g)
    ELSE LET f == NumpyRNG_translations[distribution].f
             p == parameters[1]
         IN  IF f = "normal_clipped" THEN NumpyRNG_normal_clipped(g, p.low, p.high, n)
             ELSE IF f = "normal_clipped_to_boundary"
             THEN NumpyRNG_normal_clipped_to_boundary(g, p.low, p.high, n)
             ELSE LET d == NumpyRNG_next(g, n)
                  IN  [err |-> "", vals |-> d.vals, g |-> d.g, took |-> n]

NegativeCount_empty(g, n) ==         \* variant: a negative count yields an empty array
    [err |-> "", rarr |-> << >>, g |-> g, n |-> n, took |-> 0]

NegativeCount(g, n) ==               \* line 149
    [err |-> "ValueError", rarr |-> << >>, g |-> g, n |-> n, took |-> 0]

(* lines 132-149 with the distribution and parameters of lines 128-131 *)
NextDrawOf(parallel_safe, g, n, distribution, parameters, mask) ==
    IF n = Some(0) THEN [err |-> "", rarr |-> << >>, g |-> g, n |-> n, took |-> 0]
    ELSE IF n = None
    THEN LET d == NumpyRNG__next(g, distribution, 1, parameters)
         IN  [err |-> d.err, rarr |-> d.vals, g |-> d.g, n |-> n, took |-> d.took]
    ELSE IF n[1] > 0
    THEN IF BoolMaskSizeError(n[1], mask)
         THEN [err |-> "ValueError", rarr |-> << >>, g |-> g, n |-> n, took |-> 0]
         ELSE LET m == MaskedCount(parallel_safe, n[1], mask)
                  d == NumpyRNG__next(g, distribution, m, parameters)
              IN  [err |-> d.err, rarr |-> d.vals, g |-> d.g, n |-> Some(m), took |-> d.took]
    ELSE NegativeCount(g, n)

Deliver_array(parallel_safe, d, mask) ==     \* variant: the array is handed back as it is
    IF d.err # "" THEN Raised(d.err, d.g, d.took)
    ELSE [status |-> "ok", scalar |-> FALSE, vals |-> d.rarr, g |-> d.g, took |-> d.took]

(* lines 150-158: the mask is applied and the result handed back *)
Deliver(parallel_safe, d, mask) ==
    IF d.err # "" THEN Raised(d.err, d.g, d.took)
    ELSE IF StripsMask(parallel_safe, mask) /\ IndexFails(d.rarr, mask)
    THEN Raised("IndexError", d.g, d.took)
    ELSE LET rarr == IF StripsMask(parallel_safe, mask)
                     THEN ApplyMask(d.rarr, mask) ELSE d.rarr
         IN  IF d.n = None
             THEN IF rarr = << >> THEN Raised("IndexError", d.g, d.took)
                  ELSE [status |-> "ok", scalar |-> TRUE, vals |-> <<rarr[1]>>,
                        g |-> d.g, took |-> d.took]
             ELSE [status |-> "ok", scalar |-> FALSE, vals |-> rarr,
                   g |-> d.g, took |-> d.took]

(* WrappedRNG.next(n, distribution, parameters, mask) *)
WrappedRNG_next_of(parallel_safe, g, n, distribution, parameters, mask) ==
    Deliver(parallel_safe,
            NextDrawOf(parallel_safe, g, n,
                       DefaultDistribution(distribution, parameters).distribution,
                       DefaultDistribution(distribution, parameters).parameters, mask),
            mask)

AbstractRNG_next_empty(g) ==         \* variant: returns an empty array
    [status |-> "ok", scalar |-> FALSE, vals |-> << >>, g |-> g, took |-> 0]

AbstractRNG_next(g) == Raised("NotImplementedError", g, 0)   \* AbstractRNG.next, any arguments

(* lazily_evaluate of a distribution with the given name and parameters *)
Reshaped(r, n, mask, shape) ==       \* lines 433-436 and 446: the result in its shape
    IF r.status # "ok" THEN r @@ [rshape |-> << >>]
    ELSE IF mask.dtype = "none"
    THEN IF n = 1
         THEN [r EXCEPT !.scalar = (Tail(shape) = << >>)] @@ [rshape |-> Tail(shape)]
         ELSE r @@ [rshape |-> shape]
    ELSE r @@ [rshape |-> partial_shape(mask, shape)]

lazily_evaluate_of(parallel_safe, g, name, parameters, mask, shape) ==
    Reshaped(WrappedRNG_next_of(parallel_safe, g, Some(LazyCount(mask, shape)),
                                Some(name), Some(parameters), NoMask),
             LazyCount(mask, shape), mask, shape)

----------------------------------------------------------------------------
(* Inputs *)

Counts == {None} \cup {Some(k) : k \in (0 - 1)..MaxN}

BoolMasks(k) == {BoolMask(b) : b \in [1..k -> {0, 1}]}

IntMasks(k) ==                       \* index arrays naming a non-empty subset of 0..k-1, ascending
    {IntMask(SelectedPositions(b, k)) : b \in BoolMasks(k) \ {BoolMask([i \in 1..k |-> 0])}}

ArrayLen(n) == IF n = None THEN 1 ELSE n[1]      \* length of the raw array the mask indexes

ValidMasks(n) ==                     \* masks that fit a call with count n
    IF ArrayLen(n) < 0 THEN {NoMask}
    ELSE IF ArrayLen(n) = 0 THEN {NoMask, BoolMask(<< >>)}
    ELSE {NoMask} \cup BoolMasks(ArrayLen(n)) \cup IntMasks(ArrayLen(n))

InvalidMasks(n) ==                   \* a boolean mask of the wrong length, an index out of range
    IF ArrayLen(n) < 0 THEN {BoolMask(<<1>>)}
    ELSE {BoolMask([i \in 1..(ArrayLen(n) + 1) |-> 1]), IntMask(<<ArrayLen(n)>>)}
         \cup (IF ArrayLen(n) > 0 THEN {BoolMask([i \in 1..(ArrayLen(n) - 1) |-> 1])} ELSE {})

Masks(n) == ValidMasks(n) \cup InvalidMasks(n)

Shapes == {<<k>> : k \in 1..MaxN}

LazyMasks(shape) ==                  \* masks addressing an array of the given shape
    {NoMask} \cup BoolMasks(shape[1]) \cup IntMasks(shape[1])
    \cup {ScalarIndex(i) : i \in 0..(shape[1] - 1)}

----------------------------------------------------------------------------
(* State *)

(* The objects that only some specifications build, before they exist *)
NoGSLRNG ==
    [seed |-> None, parallel_safe |-> TRUE, g |-> 0, calls |-> 0,
     distribution |-> "", status |-> "none", vals |-> << >>]

NoCopy ==
    [of |-> "", seed |-> 0, parallel_safe |-> TRUE, mpi_rank |-> 0, g0 |-> 0, rng |-> 0,
     at |-> 0, hist |-> << >>, drawn |-> 0, status |-> "none", scalar |-> FALSE,
     vals |-> << >>]

NoSharing == [second |-> NoDistribution, log |-> << >>]

NoState ==
    [built |-> FALSE, id_counter |-> 0, recorders |-> {}, current_sources |-> << >>,
     running |-> FALSE, t_start |-> 0, segment_counter |-> 0, t |-> 0, calls |-> << >>]

NothingElse ==
    /\ gsl = NoGSLRNG
    /\ copy = NoCopy
    /\ shared = NoSharing
    /\ state = NoState

NoCall(g) ==
    [op |-> "none", n |-> None, mask |-> NoMask, shape |-> << >>, status |-> "none",
     scalar |-> FALSE, vals |-> << >>, rshape |-> << >>, pre |-> g, took |-> 0]

Constructed(args) ==                 \* the state after the sources are constructed
    /\ src = [s \in Sources |->
                WrappedRNG_init(args[s].seed, args[s].parallel_safe, get_mpi_config(s))]
    /\ rng = [s \in Sources |-> NumpyRNG_init(src[s])]
    /\ drawn = [s \in Sources |-> 0]
    /\ hist = [s \in Sources |-> << >>]
    /\ last = [s \in Sources |-> NoCall(rng[s])]

CtorArgs == [seed : Seeds, parallel_safe : BOOLEAN]

(* Every process runs the same script, so the sources are built with the   *)
(* same arguments, each on its own rank.                                   *)
Init ==
    /\ \E c \in CtorArgs : Constructed([s \in Sources |-> c])
    /\ clip = ClipIdle
    /\ bnd = BoundaryIdle
    /\ dist = NoDistribution
    /\ native = NativeRNG_init
    /\ call = NoArguments
    /\ NothingElse

(* The bookkeeping of one call on source s with outcome r *)
Record(s, op, n, mask, shape, r) ==
    /\ rng' = [rng EXCEPT ![s] = r.g]
    /\ drawn' = [drawn EXCEPT ![s] = @ + r.took]
    /\ hist' = [hist EXCEPT ![s] = Append(@, [op |-> op, n |-> n, shape |-> shape])]
    /\ last' = [last EXCEPT ![s] =
                  [op |-> op, n |-> n, mask |-> mask, shape |-> shape,
                   status |-> r.status, scalar |-> r.scalar, vals |-> r.vals,
                   rshape |-> r.rshape, pre |-> rng[s], took |-> r.took]]
    /\ UNCHANGED <<src, clip, bnd, dist, native>>

ResultShape(r) == IF r.status = "ok" /\ ~r.scalar THEN <<Len(r.vals)>> ELSE << >>

(* rng.next(n, mask=mask) on source s *)
Draw(s, n, mask) ==
    LET r == WrappedRNG_next(src[s].parallel_safe, rng[s], n, mask)
    IN  /\ Record(s, "next", n, mask, << >>, r @@ [rshape |-> ResultShape(r)])
        /\ UNCHANGED <<call, gsl, copy, shared, state>>

(* lazily_evaluate(mask, shape) on a RandomDistribution bound to source s *)
LazilyEvaluate(s, mask, shape) ==
    LET r == lazily_evaluate(src[s].parallel_safe, rng[s], mask, shape)
    IN  /\ Record(s, "lazily_evaluate", Some(LazyCount(mask, shape)), mask, shape, r)
        /\ UNCHANGED <<call, gsl, copy, shared, state>>

(* Spec drives the source of one process: the sources are independent      *)
(* objects, and PairSpec drives both.                                      *)
OnlyDriven(s) == \A o \in Sources \ {s} : hist[o] = << >>

Next ==
    \/ \E s \in Sources, n \in Counts : \E mask \in Masks(n) :
          /\ OnlyDriven(s)
          /\ Len(hist[s]) < MaxCalls
          /\ Draw(s, n, mask)
    \/ \E s \in Sources, shape \in Shapes : \E mask \in LazyMasks(shape) :
          /\ OnlyDriven(s)
          /\ Len(hist[s]) < MaxCalls
          /\ LazilyEvaluate(s, mask, shape)

Spec == Init /\ [][Next]_vars

----------------------------------------------------------------------------
(* PairSpec: the sources of both processes are driven by the same script,  *)
(* with valid arguments.                                                   *)

PairCounts == {None} \cup {Some(k) : k \in 0..MaxN}

Other(s) == IF s = "a" THEN "b" ELSE "a"

(* The k-th call of s is the k-th call of the script the other process runs: *)
(* the same operation on the same logical size, with the process's own mask. *)
SameScript(s, op, n, shape) ==
    LET k == Len(hist[s]) + 1
        h == hist[Other(s)]
    IN  k <= Len(h) =>
           /\ h[k].op = op
           /\ h[k].shape = shape
           /\ op = "next" => h[k].n = n

PairNext ==
    \/ \E s \in Sources, n \in PairCounts : \E mask \in ValidMasks(n) :
          /\ Len(hist[s]) < MaxPairCalls
          /\ SameScript(s, "next", n, << >>)
          /\ Draw(s, n, mask)
    \/ \E s \in Sources, shape \in Shapes : \E mask \in LazyMasks(shape) :
          /\ Len(hist[s]) < MaxPairCalls
          /\ SameScript(s, "lazily_evaluate", None, shape)
          /\ LazilyEvaluate(s, mask, shape)

PairSpec == Init /\ [][PairNext]_vars

----------------------------------------------------------------------------
(* ShapeSpec: lazily_evaluate without a mask, for shapes of one or more    *)
(* dimensions.                                                             *)

ShapesOfAnyRank == UNION {[1..d -> 0..MaxN] : d \in 1..MaxDims}

ShapeNext ==
    \E s \in Sources, shape \in ShapesOfAnyRank :
        /\ OnlyDriven(s)
        /\ Len(hist[s]) < MaxCalls
        /\ LazilyEvaluate(s, NoMask, shape)

ShapeSpec == Init /\ [][ShapeNext]_vars

----------------------------------------------------------------------------
(* CopySpec: a source is copied with copy.deepcopy, and the original and   *)
(* the copy are drawn from, in any order.                                  *)

(* NumpyRNG.__deepcopy__: WrappedRNG.__init__ is run on the new object     *)
(* with the attributes of the original, then the generator is copied.      *)
NumpyRNG_deepcopy(obj, g) ==
    LET w == WrappedRNG_init(obj.seed, obj.parallel_safe, obj.mpi_rank)
    IN  [seed |-> w.seed, parallel_safe |-> w.parallel_safe, mpi_rank |-> w.mpi_rank,
         rng |-> g]

Deepcopy(s) ==
    /\ copy.of = ""
    /\ OnlyDriven(s)
    /\ LET obj == NumpyRNG_deepcopy(src[s], rng[s])
       IN  copy' = [NoCopy EXCEPT !.of = s, !.seed = obj.seed,
                                  !.parallel_safe = obj.parallel_safe,
                                  !.mpi_rank = obj.mpi_rank,
                                  !.g0 = obj.rng, !.rng = obj.rng,
                                  !.at = Len(hist[s])]
    /\ UNCHANGED <<src, rng, drawn, hist, last, clip, bnd, dist, native, call, gsl, shared, state>>

(* next(n) on the copy *)
CopyDraw(n) ==
    /\ copy.of # ""
    /\ Len(copy.hist) < MaxCalls
    /\ LET r == WrappedRNG_next(copy.parallel_safe, copy.rng, n, NoMask)
       IN  copy' = [copy EXCEPT !.rng = r.g,
                                !.hist = Append(@, [op |-> "next", n |-> n, shape |-> << >>]),
                                !.drawn = @ + r.took,
                                !.status = r.status,
                                !.scalar = r.scalar,
                                !.vals = r.vals]
    /\ UNCHANGED <<src, rng, drawn, hist, last, clip, bnd, dist, native, call, gsl, shared, state>>

(* next(n) on the original, before or after it is copied *)
OriginalDraw(s, n) ==
    /\ OnlyDriven(s)
    /\ copy.of \in {"", s}
    /\ Len(hist[s]) < MaxCalls
    /\ Draw(s, n, NoMask)

CopyNext ==
    \/ \E s \in Sources : Deepcopy(s)
    \/ \E n \in Counts : CopyDraw(n)
    \/ \E s \in Sources, n \in Counts : OriginalDraw(s, n)

CopySpec == Init /\ [][CopyNext]_vars

----------------------------------------------------------------------------
(* ClipSpec: one call of _clipped(gen, low, high, size), step by step *)

ClipInit ==
    /\ Constructed([s \in Sources |-> [seed |-> 1, parallel_safe |-> TRUE]])
    /\ \E size \in ClipSizes : clip = [ClipIdle EXCEPT !.pc = "call", !.size = size]
    /\ bnd = BoundaryIdle
    /\ dist = NoDistribution
    /\ native = NativeRNG_init
    /\ call = NoArguments
    /\ NothingElse

(* res = gen(size); iterations = 0; idx = np.where(...)[0] *)
ClippedBegin ==
    /\ clip.pc = "call"
    /\ \E raw \in [1..GenLen(clip.size) -> RawVals] :
          clip' = [clip EXCEPT
                     !.pc = IF clip.size = None THEN "scalar" ELSE "array",
                     !.res = raw,
                     !.idx = IF clip.size = None THEN << >>
                             ELSE Where(raw, ClipLow, ClipHigh),
                     !.iterations = 0,
                     !.gencalls = 1,
                     !.asked = Len(raw)]
    /\ UNCHANGED <<src, rng, drawn, hist, last, bnd, dist, native, call, gsl, copy, shared, state>>

ScalarLoops == clip.pc = "scalar" /\ OutOfRange(clip.res[1], ClipLow, ClipHigh)

ScalarRaise ==
    /\ ScalarLoops
    /\ LimitExceeded(clip.iterations)
    /\ clip' = [clip EXCEPT !.pc = "raised"]
    /\ UNCHANGED <<src, rng, drawn, hist, last, bnd, dist, native, call, gsl, copy, shared, state>>

ScalarRedraw ==
    /\ ScalarLoops
    /\ ~LimitExceeded(clip.iterations)
    /\ \E raw \in [1..1 -> RawVals] :
          clip' = [clip EXCEPT !.res = raw, !.iterations = @ + 1,
                               !.gencalls = @ + 1, !.asked = Len(raw)]
    /\ UNCHANGED <<src, rng, drawn, hist, last, bnd, dist, native, call, gsl, copy, shared, state>>

ScalarReturn ==
    /\ clip.pc = "scalar"
    /\ ~OutOfRange(clip.res[1], ClipLow, ClipHigh)
    /\ clip' = [clip EXCEPT !.pc = "returned"]
    /\ UNCHANGED <<src, rng, drawn, hist, last, bnd, dist, native, call, gsl, copy, shared, state>>

ArrayLoops == clip.pc = "array" /\ Len(clip.idx) > 0

ArrayRaise ==
    /\ ArrayLoops
    /\ LimitExceeded(clip.iterations)
    /\ clip' = [clip EXCEPT !.pc = "raised"]
    /\ UNCHANGED <<src, rng, drawn, hist, last, bnd, dist, native, call, gsl, copy, shared, state>>

ArrayRedraw ==
    /\ ArrayLoops
    /\ ~LimitExceeded(clip.iterations)
    /\ \E redrawn \in [1..Len(clip.idx) -> RawVals] :
          clip' = [clip EXCEPT
                     !.res = Splice(clip.res, clip.idx, redrawn),
                     !.idx = StillInvalid(clip.idx, redrawn, ClipLow, ClipHigh),
                     !.iterations = @ + 1,
                     !.gencalls = @ + 1,
                     !.asked = Len(redrawn)]
    /\ UNCHANGED <<src, rng, drawn, hist, last, bnd, dist, native, call, gsl, copy, shared, state>>

ArrayReturn ==
    /\ clip.pc = "array"
    /\ Len(clip.idx) = 0
    /\ clip' = [clip EXCEPT !.pc = "returned"]
    /\ UNCHANGED <<src, rng, drawn, hist, last, bnd, dist, native, call, gsl, copy, shared, state>>

ClipNext ==
    \/ ClippedBegin
    \/ ScalarRaise \/ ScalarRedraw \/ ScalarReturn
    \/ ArrayRaise \/ ArrayRedraw \/ ArrayReturn

ClipSpec == ClipInit /\ [][ClipNext]_vars

ClipFairSpec == ClipSpec /\ WF_vars(ClipNext)

----------------------------------------------------------------------------
(* BoundarySpec: one call of normal_clipped_to_boundary(mu, sigma, low,    *)
(* high, size), line by line.                                              *)

BoundaryInit ==
    /\ Constructed([s \in Sources |-> [seed |-> 1, parallel_safe |-> TRUE]])
    /\ clip = ClipIdle
    /\ dist = NoDistribution
    /\ native = NativeRNG_init
    /\ call = NoArguments
    /\ NothingElse
    /\ \E size \in ClipSizes, lh \in BoundaryLimits :
          bnd = [BoundaryIdle EXCEPT !.pc = "call", !.size = size,
                                     !.low = lh[1], !.high = lh[2]]

(* res = self.rng.normal(loc=mu, scale=sigma, size=size) *)
BoundaryDraw ==
    /\ bnd.pc = "call"
    /\ \E raw \in [1..GenLen(bnd.size) -> RawVals] :
          bnd' = [bnd EXCEPT !.pc = "drawn", !.raw = raw, !.gencalls = @ + 1]
    /\ UNCHANGED <<src, rng, drawn, hist, last, clip, dist, native, call, gsl, copy, shared, state>>

(* return np.maximum(np.minimum(res, high), low) *)
BoundaryReturn ==
    /\ bnd.pc = "drawn"
    /\ bnd' = [bnd EXCEPT
                 !.pc = "returned",
                 !.res = [p \in 1..Len(bnd.raw) |-> ToBoundary(bnd.raw[p], bnd.low, bnd.high)]]
    /\ UNCHANGED <<src, rng, drawn, hist, last, clip, dist, native, call, gsl, copy, shared, state>>

BoundaryNext == BoundaryDraw \/ BoundaryReturn

BoundarySpec == BoundaryInit /\ [][BoundaryNext]_vars

----------------------------------------------------------------------------
(* CtorSpec: one construction RandomDistribution(name, parameters_pos,     *)
(* rng, **parameters_named).                                               *)

ParameterKeys ==                     \* the catalog's parameter names and one that is in no entry
    UNION {SetOf(available_distributions[d]) : d \in DOMAIN available_distributions}
    \cup {"lambda"}

ValueOf(key) == IF key = "low" THEN 8 ELSE IF key = "high" THEN 23 ELSE 1

PosValue(i) == 8 * (i - 1)           \* the i-th positional value

NamedDicts == {[k \in K |-> ValueOf(k)] : K \in {S \in SUBSET ParameterKeys : Cardinality(S) <= MaxKeys}}

Positionals ==
    {None} \cup {Some(Tuple([i \in 1..len |-> PosValue(i)])) : len \in 0..MaxKeys}
    \cup {Some(Dict(<<ValueOf("low"), ValueOf("high")>>))}

NamedWith(positional) ==             \* the keyword arguments tried next to a positional argument
    IF positional = None THEN NamedDicts
    ELSE {EmptyDict} \cup {[k \in {key} |-> ValueOf(key)] : key \in ParameterKeys}

Names == DOMAIN available_distributions \cup {"unregistered"}

RngArgs == {None, Some("a"), Some("native")}

Entropy(rngarg) ==                   \* the states of a generator seeded by the system
    IF rngarg = None THEN 0..(RngModulus - 1) ELSE {0}

CtorInit ==
    /\ Constructed([s \in Sources |-> [seed |-> 1, parallel_safe |-> TRUE]])
    /\ clip = ClipIdle
    /\ bnd = BoundaryIdle
    /\ dist = NoDistribution
    /\ native = NativeRNG_init
    /\ call = NoArguments
    /\ NothingElse

Construct(name, positional, rngarg, named, g0) ==
    /\ dist.status = "none"
    /\ dist' = RandomDistribution_init(name, positional, rngarg, named, g0)
    /\ UNCHANGED <<src, rng, drawn, hist, last, clip, bnd, native, call, gsl, copy, shared, state>>

CtorNext ==
    /\ dist.status = "none"
    /\ \E positional \in Positionals :
          \E named \in NamedWith(positional) :
              \E name \in Names, rngarg \in RngArgs :
                  \E g0 \in Entropy(rngarg) :
                      Construct(name, positional, rngarg, named, g0)

CtorSpec == CtorInit /\ [][CtorNext]_vars

----------------------------------------------------------------------------
(* DistSpec: a RandomDistribution built with named parameters on source a  *)
(* or on the NativeRNG object, and the first call made after construction, *)
(* on the distribution or on a source with a distribution named.           *)

CatalogParameters(name) == [k \in SetOf(available_distributions[name]) |-> ValueOf(k)]

DistInit ==
    /\ \E c \in CtorArgs : Constructed([s \in Sources |-> c])
    /\ clip = ClipIdle
    /\ bnd = BoundaryIdle
    /\ native = NativeRNG_init
    /\ call = NoArguments
    /\ NothingElse
    /\ \E name \in DOMAIN available_distributions, r \in {"a", "native"} :
          dist = RandomDistribution_init(name, None, Some(r), CatalogParameters(name), 0)

Aliases == {"next", "random", "sample"}      \* self.random = self.next; self.sample = self.next

CallArgs ==                          \* the distribution and parameters arguments tried
    {<<None, None>>,
     <<None, Some(EmptyDict)>>,
     <<Some(dist.name), Some(dist.parameters)>>,
     <<Some(dist.name), Some(EmptyDict)>>,
     <<Some(dist.name), None>>,
     <<Some("unregistered"), Some(dist.parameters)>>}

Arguments(via, distribution, parameters) ==
    [via |-> via, distribution |-> distribution, parameters |-> parameters]

NativeRaises(via, r) ==              \* a call that ends in NativeRNG's next
    native' = [native EXCEPT !.calls = @ + 1, !.op = via, !.status = r.status, !.vals = r.vals]

(* rng.next(n, distribution, parameters, mask) on the wrapped source s, by any alias *)
SourceNext(s, via, n, distribution, parameters, mask) ==
    LET r == WrappedRNG_next_of(src[s].parallel_safe, rng[s], n, distribution, parameters, mask)
    IN  /\ Record(s, "next", n, mask, << >>, r @@ [rshape |-> ResultShape(r)])
        /\ call' = Arguments(via, distribution, parameters)
        /\ UNCHANGED <<gsl, copy, shared, state>>

(* native.next(n, distribution, parameters, mask), by any alias *)
NativeNext(via, n, distribution, parameters, mask) ==
    /\ NativeRaises(via, AbstractRNG_next(0))
    /\ call' = Arguments(via, distribution, parameters)
    /\ UNCHANGED <<src, rng, drawn, hist, last, clip, bnd, dist, gsl, copy, shared, state>>

(* RandomDistribution.next(n, mask) *)
DistNext(n, mask) ==
    /\ dist.status = "ok"
    /\ call' = Arguments("RandomDistribution.next", Some(dist.name), Some(dist.parameters))
    /\ IF dist.rng = "native"
       THEN /\ NativeRaises("RandomDistribution.next", AbstractRNG_next(0))
            /\ UNCHANGED <<src, rng, drawn, hist, last, clip, bnd, dist, gsl, copy, shared, state>>
       ELSE LET s == dist.rng
                r == WrappedRNG_next_of(src[s].parallel_safe, rng[s], n,
                                        Some(dist.name), Some(dist.parameters), mask)
            IN  /\ Record(s, "next", n, mask, << >>, r @@ [rshape |-> ResultShape(r)])
                /\ UNCHANGED <<gsl, copy, shared, state>>

(* RandomDistribution.lazily_evaluate(mask, shape) *)
DistLazilyEvaluate(mask, shape) ==
    /\ dist.status = "ok"
    /\ call' = Arguments("lazily_evaluate", Some(dist.name), Some(dist.parameters))
    /\ IF dist.rng = "native"
       THEN /\ NativeRaises("lazily_evaluate", AbstractRNG_next(0))
            /\ UNCHANGED <<src, rng, drawn, hist, last, clip, bnd, dist, gsl, copy, shared, state>>
       ELSE LET s == dist.rng
                r == lazily_evaluate_of(src[s].parallel_safe, rng[s], dist.name,
                                        dist.parameters, mask, shape)
            IN  /\ Record(s, "lazily_evaluate", Some(LazyCount(mask, shape)), mask, shape, r)
                /\ UNCHANGED <<gsl, copy, shared, state>>

NoCallYet == hist["a"] = << >> /\ native.calls = 0

DistNextStep ==
    \/ /\ NoCallYet
       /\ \E via \in Aliases, n \in Counts, args \in CallArgs :
             \E mask \in Masks(n) : SourceNext("a", via, n, args[1], args[2], mask)
    \/ /\ NoCallYet
       /\ \E via \in Aliases, n \in Counts, args \in CallArgs :
             \E mask \in Masks(n) : NativeNext(via, n, args[1], args[2], mask)
    \/ /\ NoCallYet
       /\ \E n \in Counts : \E mask \in Masks(n) : DistNext(n, mask)
    \/ /\ NoCallYet
       /\ \E shape \in Shapes : \E mask \in LazyMasks(shape) : DistLazilyEvaluate(mask, shape)

DistSpec == DistInit /\ [][DistNextStep]_vars

----------------------------------------------------------------------------
(* TranslationSpec: a RandomDistribution built for a catalog distribution  *)
(* on a NumpyRNG (source a) or on a GSLRNG, and its first call of next.    *)
(* The GSL generator is a deterministic stream like numpy's.               *)

(* GSLRNG.__init__(seed, parallel_safe=...) with pygsl available *)
GSLRNG_init(seed, parallel_safe, rank) ==
    [NoGSLRNG EXCEPT !.seed = Some(WrappedRNG_init(seed, parallel_safe, rank).seed),
                     !.parallel_safe = parallel_safe,
                     !.g = RngSeeded(WrappedRNG_init(seed, parallel_safe, rank).seed)]

(* GSLRNG._next(distribution, n, parameters) *)
GSLRNG__next(g, distribution, n, parameters) ==
    IF distribution \notin DOMAIN GSLRNG_translations THEN NoValues("KeyError", g)
    ELSE IF parameters = None THEN NoValues("AttributeError", g)
    ELSE IF DOMAIN parameters[1] # DOMAIN GSLRNG_translations[distribution].parameter_map
    THEN NoValues("KeyError", g)
    ELSE IF GSLRNG_translations[distribution].f = "normal_clipped"
    THEN NumpyRNG_normal_clipped(g, parameters[1].low, parameters[1].high, n)
    ELSE [err |-> "", vals |-> RngValues(g, n), g |-> RngAdvance(g, n), took |-> n]

(* WrappedRNG.next(n, distribution, parameters) of a GSLRNG, lines 132-149 *)
GSLRNG_NextDrawOf(g, n, distribution, parameters) ==
    IF n = Some(0) THEN [err |-> "", rarr |-> << >>, g |-> g, n |-> n, took |-> 0]
    ELSE IF n = None \/ n[1] > 0
    THEN LET d == GSLRNG__next(g, distribution, ArrayLen(n), parameters)
         IN  [err |-> d.err, rarr |-> d.vals, g |-> d.g, n |-> n, took |-> d.took]
    ELSE NegativeCount(g, n)

PositionalParameters(name) ==
    Some(Tuple([i \in 1..Len(available_distributions[name]) |->
                   ValueOf(available_distributions[name][i])]))

TranslationInit ==
    /\ \E c \in CtorArgs :
          /\ Constructed([s \in Sources |-> c])
          /\ gsl = GSLRNG_init(c.seed, c.parallel_safe, get_mpi_config("a"))
    /\ clip = ClipIdle
    /\ bnd = BoundaryIdle
    /\ native = NativeRNG_init
    /\ call = NoArguments
    /\ copy = NoCopy
    /\ shared = NoSharing
    /\ state = NoState
    /\ \E name \in DOMAIN available_distributions, r \in {"a", "gsl"} :
          \/ dist = RandomDistribution_init(name, None, Some(r), CatalogParameters(name), 0)
          \/ dist = RandomDistribution_init(name, PositionalParameters(name), Some(r),
                                            EmptyDict, 0)

(* RandomDistribution.next(n) of a distribution bound to the GSLRNG *)
GSLDistNext(n) ==
    /\ dist.status = "ok"
    /\ dist.rng = "gsl"
    /\ gsl.calls = 0
    /\ call' = Arguments("RandomDistribution.next", Some(dist.name), Some(dist.parameters))
    /\ LET r == Deliver(gsl.parallel_safe,
                        GSLRNG_NextDrawOf(gsl.g, n, dist.name, Some(dist.parameters)),
                        NoMask)
       IN  gsl' = [gsl EXCEPT !.g = r.g, !.calls = @ + 1, !.distribution = dist.name,
                              !.status = r.status, !.vals = r.vals]
    /\ UNCHANGED <<src, rng, drawn, hist, last, clip, bnd, dist, native, copy, shared, state>>

TranslationNext ==
    \/ \E n \in Counts : GSLDistNext(n)
    \/ /\ dist.rng = "a"
       /\ hist["a"] = << >>
       /\ \E n \in Counts : DistNext(n, NoMask)

TranslationSpec == TranslationInit /\ [][TranslationNext]_vars

----------------------------------------------------------------------------
(* SharedSpec: two RandomDistribution objects built on source a (dist is   *)
(* the first, shared.second the second); their next calls interleave.      *)
(* shared.log lists the calls with the number of values drawn before each. *)

SharedInit ==
    /\ \E c \in CtorArgs : Constructed([s \in Sources |-> c])
    /\ clip = ClipIdle
    /\ bnd = BoundaryIdle
    /\ native = NativeRNG_init
    /\ call = NoArguments
    /\ gsl = NoGSLRNG
    /\ copy = NoCopy
    /\ state = NoState
    /\ \E name1, name2 \in DOMAIN available_distributions :
          /\ dist = RandomDistribution_init(name1, None, Some("a"), CatalogParameters(name1), 0)
          /\ shared = [second |-> RandomDistribution_init(name2, None, Some("a"),
                                                          CatalogParameters(name2), 0),
                       log    |-> << >>]

(* next(n) of the first (by = 1) or of the second (by = 2) distribution *)
SharedNext(by, n) ==
    LET d == IF by = 1 THEN dist ELSE shared.second
        s == d.rng
        r == WrappedRNG_next_of(src[s].parallel_safe, rng[s], n,
                                Some(d.name), Some(d.parameters), NoMask)
    IN  /\ Len(shared.log) < MaxCalls
        /\ Record(s, "next", n, NoMask, << >>, r @@ [rshape |-> ResultShape(r)])
        /\ call' = Arguments("RandomDistribution.next", Some(d.name), Some(d.parameters))
        /\ shared' = [shared EXCEPT !.log =
                         Append(@, [by |-> by, n |-> n, first |-> drawn[s],
                                    took |-> r.took, status |-> r.status, vals |-> r.vals])]
        /\ UNCHANGED <<gsl, copy, state>>

SharedStep == \E by \in 1..2, n \in PairCounts : SharedNext(by, n)

SharedSpec == SharedInit /\ [][SharedStep]_vars

----------------------------------------------------------------------------
(* StateSpec: the simulator state object of pyNN.brian2.simulator, with    *)
(* the operations the common implementation performs on it.  state.calls   *)
(* lists the operations performed since construction.                      *)

State_reset(st) ==
    [st EXCEPT !.running = FALSE, !.t_start = 0, !.segment_counter = @ + 1]

State_clear_noreset(st) ==           \* variant: clear does not end with reset()
    [st EXCEPT !.recorders = {}, !.id_counter = 0, !.current_sources = << >>,
               !.segment_counter = 0 - 1]

State_clear(st) ==
    State_reset([st EXCEPT !.recorders = {}, !.id_counter = 0, !.current_sources = << >>,
                           !.segment_counter = 0 - 1])

(* network.run(simtime * ms) advances the clock of the network *)
State_run(st, simtime) == [st EXCEPT !.running = TRUE, !.t = @ + simtime]

State_run_until(st, tstop) == State_run(st, tstop - st.t)

(* State.__init__: a new network and clock, then clear() *)
State_init == State_clear([NoState EXCEPT !.built = TRUE, !.current_sources = << >>, !.t = 0])

Recorders == {"spikes", "v"}         \* recorder objects that populations register

CurrentSources == {"dc"}             \* current source objects

SimTimes == 0..1                     \* the simtime of one run, in steps of the clock

StateInit ==
    /\ Constructed([s \in Sources |-> [seed |-> 1, parallel_safe |-> TRUE]])
    /\ clip = ClipIdle
    /\ bnd = BoundaryIdle
    /\ dist = NoDistribution
    /\ native = NativeRNG_init
    /\ call = NoArguments
    /\ gsl = NoGSLRNG
    /\ copy = NoCopy
    /\ shared = NoSharing
    /\ state = State_init

(* One operation op that takes the state object to st *)
Performed(op, st) ==
    /\ Len(state.calls) < MaxStateCalls
    /\ state' = [st EXCEPT !.calls = Append(@, op)]
    /\ UNCHANGED <<src, rng, drawn, hist, last, clip, bnd, dist, native, call, gsl, copy, shared>>

Run(simtime) == Performed("run", State_run(state, simtime))

RunUntil(tstop) == Performed("run_until", State_run_until(state, tstop))

Reset == Performed("reset", State_reset(state))

Clear == Performed("clear", State_clear(state))

(* The common implementation numbers a new cell, registers a recorder and  *)
(* registers a current source through the attributes of the state object.  *)
NewID == Performed("id_counter", [state EXCEPT !.id_counter = @ + 1])

AddRecorder(r) == Performed("recorders", [state EXCEPT !.recorders = @ \cup {r}])

AddCurrentSource(c) ==
    Performed("current_sources", [state EXCEPT !.current_sources = Append(@, c)])

StateNext ==
    \/ \E simtime \in SimTimes : Run(simtime)
    \/ \E simtime \in SimTimes : RunUntil(state.t + simtime)
    \/ Reset
    \/ Clear
    \/ NewID
    \/ \E r \in Recorders : AddRecorder(r)
    \/ \E c \in CurrentSources : AddCurrentSource(c)

StateSpec == StateInit /\ [][StateNext]_vars

----------------------------------------------------------------------------
(* Vocabulary of the properties *)

(* The values of full at the given 0-based positions *)
ValuesAtPositions(full, positions) == [i \in 1..Len(positions) |-> full[positions[i] + 1]]

(* The values a finished call delivered for logical position j *)
DeliveredAt(l, j) ==
    LET pos == SelectedPositions(l.mask, l.n[1])
    IN  {l.vals[i] : i \in {k \in 1..Len(pos) : pos[k] = j}}

IsArrayCall(l) == l.op = "next" /\ l.n # None /\ l.n[1] > 0

SameSeed(a, b) == src[a].given = src[b].given

BothParallelSafe(a, b) == src[a].parallel_safe /\ src[b].parallel_safe

SelectsLeadingRun(mask) ==           \* the mask selects positions 0..k-1 in order
    LET pos == SelectedPositions(mask, Len(mask.v))
    IN  \A i \in 1..Len(pos) : pos[i] = i - 1

Min(x, y) == IF x <= y THEN x ELSE y

(* a evaluated lazily with an array mask, b evaluated the whole shape, both *)
(* as the first call on sources built with the same seed, parallel-safe.    *)
LazyPair(a, b) ==
    /\ SameSeed(a, b) /\ BothParallelSafe(a, b)
    /\ Len(hist[a]) = 1 /\ Len(hist[b]) = 1
    /\ last[a].op = "lazily_evaluate" /\ last[b].op = "lazily_evaluate"
    /\ last[a].mask.dtype \in {"bool", "int"}
    /\ last[b].mask = NoMask
    /\ last[a].shape = last[b].shape

----------------------------------------------------------------------------
----------------------------------------------------------------------------
(* C2: on a parallel-safe source, next(n, mask) with n > 0 and a valid     *)
(* mask draws the full n values and returns those at the positions the     *)
(* mask selects; the generator advances by n whatever the mask selects.    *)
C2_ParallelSafeDrawsFullThenMasks ==
    \A s \in Sources :
        LET l == last[s]
        IN  (IsArrayCall(l) /\ src[s].parallel_safe
               /\ l.mask # NoMask /\ l.mask \in ValidMasks(l.n)) =>
                /\ l.status = "ok"
                /\ l.took = l.n[1]
                /\ rng[s] = RngAdvance(l.pre, l.n[1])
                /\ l.vals = ValuesAtPositions(RngValues(l.pre, l.n[1]),
                                              SelectedPositions(l.mask, l.n[1]))

C2_Witness ==
    /\ src["a"].parallel_safe
    /\ IsArrayCall(last["a"])
    /\ last["a"].n = Some(MaxN)
    /\ last["a"].mask = BoolMask([i \in 1..MaxN |-> IF i = 1 THEN 0 ELSE 1])
    /\ Len(last["a"].vals) = MaxN - 1
    /\ last["a"].took = MaxN

(* C3: two parallel-safe sources built with the same seed that have made   *)
(* the same sequence of next(n_i, mask) calls, each with its own masks,    *)
(* are at the same stream position, and a logical position selected by     *)
(* both masks of the latest call got the same value on both.               *)
OnlyNextCalls(s) == \A k \in 1..Len(hist[s]) : hist[s][k].op = "next"

C3_PartitionIndependence ==
    \A a, b \in Sources :
        (SameSeed(a, b) /\ BothParallelSafe(a, b)
           /\ hist[a] = hist[b] /\ OnlyNextCalls(a)) =>
            /\ rng[a] = rng[b]
            /\ drawn[a] = drawn[b]
            /\ (IsArrayCall(last[a]) /\ last[a].status = "ok" /\ last[b].status = "ok") =>
                  \A j \in 0..(last[a].n[1] - 1) :
                      \A va \in DeliveredAt(last[a], j), vb \in DeliveredAt(last[b], j) :
                          va = vb

C3_Witness ==
    /\ BothParallelSafe("a", "b") /\ SameSeed("a", "b")
    /\ Len(hist["a"]) = 2 /\ hist["a"] = hist["b"] /\ OnlyNextCalls("a")
    /\ hist["a"][1].n = Some(MaxN)
    /\ last["a"].n = Some(MaxN)
    /\ last["a"].mask = BoolMask([i \in 1..MaxN |-> 1])
    /\ last["b"].mask = IntMask(<<MaxN - 1>>)
    /\ last["a"].status = "ok" /\ last["b"].status = "ok"
    /\ DeliveredAt(last["a"], MaxN - 1) = DeliveredAt(last["b"], MaxN - 1)
    /\ DeliveredAt(last["b"], MaxN - 1) # {}

(* C4: on a source that is not parallel-safe, next(n, mask) with n > 0     *)
(* draws and returns exactly as many values as the mask selects (true      *)
(* entries of a boolean mask, size of an integer mask); they are the next  *)
(* values of the stream, whatever the mask's contents.                     *)
SelectedCount(mask, n) ==
    IF mask.dtype = "none" THEN n
    ELSE IF mask.dtype = "bool"
    THEN Cardinality({i \in 1..Len(mask.v) : mask.v[i] = 1})
    ELSE Len(mask.v)

C5_UnmaskedLengthAndAdvance ==
    \A s \in Sources :
        LET l == last[s]
        IN  (l.op = "next" /\ l.n # None /\ l.n[1] >= 0 /\ l.mask = NoMask) =>
                /\ l.status = "ok"
                /\ ~l.scalar
                /\ Len(l.vals) = l.n[1]
                /\ l.took = l.n[1]
                /\ rng[s] = RngAdvance(l.pre, l.n[1])
                /\ l.vals = RngValues(l.pre, l.n[1])

C5_Witness ==
    /\ last["a"].op = "next" /\ last["a"].n = Some(MaxN) /\ last["a"].mask = NoMask
    /\ Len(last["a"].vals) = MaxN
    /\ Len(hist["a"]) = 2
    /\ drawn["a"] > MaxN

(* C6: next(0) returns an empty sequence and leaves the generator as it    *)
(* was, so every call made afterwards has the outcome it would have had    *)
(* without the next(0).                                                    *)
ZeroCallOn(s) ==
    /\ Len(hist'[s]) = Len(hist[s]) + 1
    /\ last'[s].op = "next"
    /\ last'[s].n = Some(0)

C6_ZeroCountLeavesGenerator ==
    [][\A s \in Sources :
          ZeroCallOn(s) =>
            /\ rng'[s] = rng[s]
            /\ drawn'[s] = drawn[s]
            /\ last'[s].mask \in ValidMasks(Some(0)) =>
                  (last'[s].status = "ok" /\ ~last'[s].scalar /\ last'[s].vals = << >>)
            /\ \A n \in Counts : \A mask \in Masks(n) :
                  WrappedRNG_next(src[s].parallel_safe, rng'[s], n, mask)
                    = WrappedRNG_next(src[s].parallel_safe, rng[s], n, mask)]_vars

C6_Witness ==
    /\ Len(hist["a"]) = 2
    /\ hist["a"][1].op = "next" /\ hist["a"][1].n = Some(MaxN)
    /\ last["a"].op = "next" /\ last["a"].n = Some(0) /\ last["a"].mask = NoMask
    /\ last["a"].status = "ok"
    /\ drawn["a"] > 0
    /\ rng["a"] = last["a"].pre

----------------------------------------------------------------------------
(* Rejection sampling *)

ClipDone == clip.pc \in {"returned", "raised"}

InRange(v) == ClipLow <= v /\ v <= ClipHigh

(* C7: a result returned by the rejection-sampling helper, scalar or       *)
(* array, has every value inside [low, high]; the helper ends in no other  *)
(* way than by returning or by the redraw-limit error.                     *)
C7_ReturnedValuesInRange ==
    /\ clip.pc = "returned" =>
          /\ Len(clip.res) = GenLen(clip.size)
          /\ \A p \in 1..Len(clip.res) : InRange(clip.res[p])
    /\ (clip.pc \in {"scalar", "array"}) => ENABLED ClipNext

C7_Witness ==
    /\ clip.pc = "returned"
    /\ clip.size = Some(MaxSize)
    /\ clip.iterations >= 2
    /\ \A p \in 1..Len(clip.res) : InRange(clip.res[p])

(* C8 as stated: the loop gives up after MAX_REDRAWS unsuccessful          *)
(* iterations, so no more than MAX_REDRAWS redraw iterations are ever      *)
(* performed.                                                              *)
C8_AtMostMaxRedraws == clip.iterations <= MAX_REDRAWS

(* C9: in the array case a redraw iteration asks the generator for exactly *)
(* as many values as there are invalid positions and writes them into      *)
(* those positions only; a position in range is never written again, and   *)
(* the invalid positions of an iteration are among those of the previous.  *)
Positions(idx) == {idx[j] : j \in 1..Len(idx)}

ArrayRedrawStep ==
    /\ clip.pc = "array" /\ clip'.pc = "array"
    /\ clip'.gencalls = clip.gencalls + 1

C9_RedrawsOnlyInvalidPositions ==
    [][ArrayRedrawStep =>
          /\ clip'.asked = Len(clip.idx)
          /\ Positions(clip.idx) = {p \in 1..Len(clip.res) : ~InRange(clip.res[p])}
          /\ Len(clip'.res) = Len(clip.res)
          /\ \A p \in 1..Len(clip.res) :
                (p \notin Positions(clip.idx) \/ InRange(clip.res[p])) =>
                    clip'.res[p] = clip.res[p]
          /\ Positions(clip'.idx) \subseteq Positions(clip.idx)
          /\ Positions(clip'.idx) = {p \in 1..Len(clip'.res) : ~InRange(clip'.res[p])}]_vars

C9_Witness ==
    /\ clip.pc = "array"
    /\ clip.size = Some(MaxSize)
    /\ clip.iterations >= 2
    /\ clip.asked = 1
    /\ Len(clip.idx) = 1
    /\ clip.idx[1] = MaxSize

(* C10: every call of the helper ends, by returning or by raising, and it  *)
(* calls the generator at most MAX_REDRAWS + 2 times, whatever values the  *)
(* generator produces.                                                     *)
C10_ClippedTerminates ==
    /\ [](clip.gencalls <= MAX_REDRAWS + 2)
    /\ [](clip.gencalls = (IF clip.pc = "call" THEN 0 ELSE clip.iterations + 1))
    /\ <>ClipDone

C10_Witness ==
    /\ clip.pc = "raised"
    /\ clip.gencalls = MAX_REDRAWS + 2
    /\ clip.size = Some(MaxSize)

----------------------------------------------------------------------------
(* C11: normal_clipped_to_boundary draws size raw values in one generator  *)
(* call, never draws again and never raises; each value returned is the    *)
(* raw value when that lies in [low, high], low when the raw value is      *)
(* below low, and high when it is above high.                              *)
C11_BoundaryIsPureClamp ==
    /\ bnd.pc \in {"call", "drawn", "returned"}
    /\ bnd.gencalls = (IF bnd.pc = "call" THEN 0 ELSE 1)
    /\ bnd.pc # "call" => Len(bnd.raw) = GenLen(bnd.size)
    /\ bnd.pc = "drawn" => ENABLED BoundaryReturn
    /\ bnd.pc = "returned" =>
          /\ Len(bnd.res) = Len(bnd.raw)
          /\ \A p \in 1..Len(bnd.res) :
                LET v == bnd.raw[p]
                IN  /\ (bnd.low <= v /\ v <= bnd.high) => bnd.res[p] = v
                    /\ v < bnd.low => bnd.res[p] = bnd.low
                    /\ v > bnd.high => bnd.res[p] = bnd.high

C11_Witness ==
    /\ bnd.pc = "returned"
    /\ bnd.size = Some(MaxSize)
    /\ bnd.low = ClipLow /\ bnd.high = ClipHigh
    /\ bnd.raw[1] < bnd.low /\ bnd.res[1] = bnd.low
    /\ bnd.raw[MaxSize] > bnd.high /\ bnd.res[MaxSize] = bnd.high

----------------------------------------------------------------------------
(* C12: two parallel-safe sources built with the same seed that have been  *)
(* driven by the same sequence of calls (same operation, count and shape   *)
(* at each step, same mask at the latest) returned the same result from    *)
(* the latest call and are in the same generator state; as this holds      *)
(* after every step, it holds at every step.                               *)
SameCalls(a, b) == hist[a] = hist[b] /\ last[a].mask = last[b].mask

C12_Determinism ==
    \A a, b \in Sources :
        (SameSeed(a, b) /\ BothParallelSafe(a, b) /\ SameCalls(a, b)) =>
            /\ rng[a] = rng[b]
            /\ drawn[a] = drawn[b]
            /\ last[a] = last[b]

C12_Witness ==
    /\ SameSeed("a", "b") /\ BothParallelSafe("a", "b") /\ SameCalls("a", "b")
    /\ Len(hist["a"]) = 2
    /\ hist["a"][1].op = "lazily_evaluate"
    /\ last["a"].op = "next" /\ last["a"].n = Some(MaxN)
    /\ last["a"].mask = IntMask(<<MaxN - 1>>)
    /\ last["a"].status = "ok" /\ last["a"].vals = last["b"].vals
    /\ Len(last["a"].vals) = 1

(* C13: the seed a source uses is the given seed plus the rank of its      *)
(* process when the source is not parallel-safe and the given seed itself  *)
(* when it is, and the generator starts from that seed; so sources built   *)
(* with one seed on distinct ranks use distinct seeds when they are not    *)
(* parallel-safe and one seed when they are.                               *)
EffectiveSeed(s) ==
    IF src[s].parallel_safe THEN src[s].given ELSE src[s].given + get_mpi_config(s)

FirstGeneratorState(s) == IF hist[s] = << >> THEN rng[s] ELSE last[s].pre

C13_SeedDiscipline ==
    /\ \A s \in Sources :
          /\ src[s].seed = EffectiveSeed(s)
          /\ Len(hist[s]) <= 1 => FirstGeneratorState(s) = RngSeeded(EffectiveSeed(s))
    /\ \A a, b \in Sources :
          (SameSeed(a, b) /\ get_mpi_config(a) # get_mpi_config(b)) =>
              /\ (~src[a].parallel_safe /\ ~src[b].parallel_safe) => src[a].seed # src[b].seed
              /\ BothParallelSafe(a, b) => src[a].seed = src[b].seed

C13_Witness ==
    /\ ~src["b"].parallel_safe /\ SameSeed("a", "b")
    /\ src["b"].seed = src["b"].given + 1
    /\ src["a"].seed = src["a"].given
    /\ Len(hist["b"]) = 1
    /\ last["b"].pre = RngSeeded(src["b"].given + 1)
    /\ last["b"].status = "ok" /\ last["b"].vals # << >>

----------------------------------------------------------------------------
(* C15 as stated: next(n, mask) with a boolean mask whose length is not n  *)
(* fails with the invalid-mask error before any value is drawn, in either  *)
(* mode.                                                                   *)
WrongLengthBoolMask(l) ==
    /\ l.op = "next" /\ l.n # None /\ l.n[1] >= 0
    /\ l.mask.dtype = "bool" /\ Len(l.mask.v) # l.n[1]

C15_WrongLengthBoolMaskRejected ==
    \A s \in Sources :
        WrongLengthBoolMask(last[s]) =>
            /\ last[s].status = "ValueError"
            /\ last[s].took = 0
            /\ rng[s] = last[s].pre

----------------------------------------------------------------------------
(* C20: lazily_evaluate with a mask draws as many values as the            *)
(* mask-reduced shape contains (one for a single index), returns all of    *)
(* them in that shape, and advances the generator by that count.           *)
ReducedCount(mask) ==
    IF mask.dtype = "scalar" THEN 1
    ELSE IF mask.dtype = "bool"
    THEN Cardinality({i \in 1..Len(mask.v) : mask.v[i] = 1})
    ELSE Len(mask.v)

C20_LazyDrawsReducedCount ==
    \A s \in Sources :
        LET l == last[s]
            k == ReducedCount(l.mask)
        IN  (l.op = "lazily_evaluate" /\ l.mask # NoMask) =>
                /\ l.status = "ok"
                /\ l.took = k
                /\ Len(l.vals) = k
                /\ l.vals = RngValues(l.pre, k)
                /\ rng[s] = RngAdvance(l.pre, k)
                /\ l.rshape = (IF l.mask.dtype = "scalar" THEN << >> ELSE <<k>>)

C20_Witness ==
    /\ last["a"].op = "lazily_evaluate"
    /\ last["a"].shape = <<MaxN>>
    /\ last["a"].mask = BoolMask([i \in 1..MaxN |-> IF i = 1 THEN 0 ELSE 1])
    /\ last["a"].took = MaxN - 1
    /\ Len(last["a"].vals) = MaxN - 1
    /\ Len(hist["a"]) = 2 /\ drawn["a"] > MaxN - 1

----------------------------------------------------------------------------
(* Construction of a RandomDistribution *)

DocumentedParameters ==              \* the documented table of required parameters
    [binomial                   |-> {"n", "p"},
     gamma                      |-> {"k", "theta"},
     exponential                |-> {"beta"},
     lognormal                  |-> {"mu", "sigma"},
     normal                     |-> {"mu", "sigma"},
     normal_clipped             |-> {"mu", "sigma", "low", "high"},
     normal_clipped_to_boundary |-> {"mu", "sigma", "low", "high"},
     poisson                    |-> {"lambda"},
     uniform                    |-> {"low", "high"},
     uniform_int                |-> {"low", "high"},
     vonmises                   |-> {"mu", "kappa"}]

TableWithLambdaUnderscore == [DocumentedParameters EXCEPT !.poisson = {"lambda_"}]

NamedConstruction(table) ==
    /\ dist.status # "none"
    /\ dist.positional = None
    /\ dist.name \in DOMAIN table

AcceptsExactly(table) ==
    NamedConstruction(table) =>
        /\ dist.status = "ok" <=> DOMAIN dist.named = table[dist.name]
        /\ dist.status = "ok" => dist.parameters = dist.named
        /\ dist.status # "ok" => (dist.status = "KeyError" /\ dist.arg = "parameterization")

(* C16 as stated: for every name of the documented table, construction     *)
(* with named parameters succeeds exactly when the keys are the documented *)
(* ones, poisson taking the key lambda; any other key set is rejected with *)
(* the parameter-mismatch error.                                           *)
C16_DocumentedKeysAccepted == AcceptsExactly(DocumentedParameters)

(* C16 amended: the same, with poisson taking the key lambda_ (the key     *)
(* lambda is rejected).                                                    *)
C16_CatalogKeysAccepted == AcceptsExactly(TableWithLambdaUnderscore)

C16_Witness ==
    /\ dist.name = "poisson" /\ dist.positional = None
    /\ DOMAIN dist.named = {"lambda_"}
    /\ dist.status = "ok"
    /\ DOMAIN dist.parameters = {"lambda_"}

(* C17: positional parameters are accepted only when there are as many as  *)
(* the catalog names for the distribution, and are bound to those names in *)
(* the declared order; positional together with named parameters are      *)
(* rejected; after a successful construction the keys of the parameters    *)
(* are exactly the catalog's names for the distribution.                   *)
C17_ParameterResolution ==
    dist.status # "none" =>
        /\ (dist.positional # None /\ dist.status = "ok") =>
              LET expected == available_distributions[dist.name]
                  given    == dist.positional[1]
              IN  /\ given.type = "tuple"
                  /\ Len(given.v) = Len(expected)
                  /\ \A i \in 1..Len(expected) : dist.parameters[expected[i]] = given.v[i]
        /\ (dist.positional # None /\ dist.positional[1].type = "tuple"
               /\ dist.named = EmptyDict /\ dist.name \in DOMAIN available_distributions
               /\ Len(dist.positional[1].v) = Len(available_distributions[dist.name])) =>
              dist.status = "ok"
        /\ (dist.positional # None /\ DOMAIN dist.named # {}) =>
              (dist.status = "ValueError" /\ dist.arg = "mixed")
        /\ dist.status = "ok" =>
              /\ dist.name \in DOMAIN available_distributions
              /\ DOMAIN dist.parameters = SetOf(available_distributions[dist.name])

C17_Witness ==
    /\ dist.status = "ok"
    /\ dist.name = "normal_clipped"
    /\ dist.positional # None
    /\ Len(dist.positional[1].v) = 4
    /\ dist.parameters["mu"] = PosValue(1)
    /\ dist.parameters["high"] = PosValue(4)

----------------------------------------------------------------------------
(* Calls that name a distribution *)

(* C14: next(n) with n < 0 on a wrapped source raises the error for an     *)
(* invalid sample count, returns no value and leaves the generator as it   *)
(* was, whatever the distribution, the parameters and the mask.            *)
NegativeCountCall(s) ==
    last[s].op = "next" /\ last[s].n # None /\ last[s].n[1] < 0

C14_NegativeCountRejected ==
    \A s \in Sources :
        NegativeCountCall(s) =>
            /\ last[s].status = "ValueError"
            /\ last[s].vals = << >>
            /\ last[s].took = 0
            /\ rng[s] = last[s].pre

C14_Witness ==
    /\ NegativeCountCall("a")
    /\ call.distribution = Some("normal_clipped")
    /\ last["a"].mask = BoolMask(<<1>>)
    /\ ~src["a"].parallel_safe
    /\ last["a"].status = "ValueError"
    /\ rng["a"] = last["a"].pre

(* C18 as stated: a call of next on a source with a name that is not in    *)
(* the catalog is rejected, for every requested count, before the          *)
(* generator is touched; in particular it never returns a result.          *)
UnregisteredCall(s) ==
    /\ call.via \in Aliases
    /\ call.distribution # None
    /\ call.distribution[1] \notin DOMAIN available_distributions
    /\ hist[s] # << >>

C18_UnregisteredNameRejected ==
    \A s \in Sources :
        UnregisteredCall(s) =>
            /\ last[s].status # "ok"
            /\ rng[s] = last[s].pre

(* C19: a call of next, random or sample on the NativeRNG object raises    *)
(* and returns no value, whatever its arguments; so do next and            *)
(* lazily_evaluate of a RandomDistribution bound to it, and no wrapped     *)
(* source is drawn from on their behalf.                                   *)
C19_NativeNeverGenerates ==
    /\ native.vals = << >>
    /\ native.status = (IF native.calls = 0 THEN "none" ELSE "NotImplementedError")
    /\ (dist.rng = "native" /\ call.via \in {"RandomDistribution.next", "lazily_evaluate"}) =>
          /\ native.calls > 0
          /\ native.status = "NotImplementedError"
          /\ \A s \in Sources : hist[s] = << >> /\ drawn[s] = 0

C19_Witness ==
    /\ dist.status = "ok" /\ dist.rng = "native" /\ dist.name = "uniform"
    /\ call.via = "lazily_evaluate"
    /\ native.op = "lazily_evaluate"
    /\ native.status = "NotImplementedError"
    /\ native.vals = << >>

----------------------------------------------------------------------------
(* Scalar mode *)

Truncated == {"normal_clipped", "normal_clipped_to_boundary"}

(* The latest call named, or defaulted to, a catalog distribution of the   *)
(* given set together with exactly its catalog parameters.                 *)
CallOf(names) ==
    LET d == DefaultDistribution(call.distribution, call.parameters)
    IN  /\ call.via # "none"
        /\ d.distribution \in names
        /\ d.parameters # None
        /\ DOMAIN d.parameters[1] = SetOf(available_distributions[d.distribution])

ScalarModeCall(s) == last[s].op = "next" /\ last[s].n = None

(* C21: next with n unspecified and no mask, for a non-truncated           *)
(* distribution, generates exactly one value, advances the stream by       *)
(* exactly one draw and returns that value as a scalar, not a sequence.    *)
C21_ScalarModeDrawsOne ==
    \A s \in Sources :
        (/\ ScalarModeCall(s)
         /\ last[s].mask = NoMask
         /\ CallOf(DOMAIN available_distributions \ Truncated)) =>
            /\ last[s].status = "ok"
            /\ last[s].scalar
            /\ last[s].rshape = << >>
            /\ last[s].vals = RngValues(last[s].pre, 1)
            /\ last[s].took = 1
            /\ drawn[s] = 1
            /\ rng[s] = RngAdvance(last[s].pre, 1)

C21_Witness ==
    /\ ScalarModeCall("a")
    /\ last["a"].mask = NoMask
    /\ call.via = "sample"
    /\ call.distribution = Some("vonmises")
    /\ CallOf({"vonmises"})
    /\ last["a"].scalar
    /\ last["a"].took = 1
    /\ rng["a"] = RngStep(last["a"].pre)

(* C25: in scalar mode a supplied mask has no effect: on parallel-safe and *)
(* on non-parallel-safe sources, for any mask, next draws exactly one      *)
(* value and returns it as a scalar, as it does when no mask is given.     *)
C25_ScalarModeIgnoresMask ==
    \A s \in Sources :
        ScalarModeCall(s) =>
            /\ last[s].status = "ok"
            /\ last[s].scalar
            /\ last[s].vals = RngValues(last[s].pre, 1)
            /\ last[s].took = 1
            /\ rng[s] = RngAdvance(last[s].pre, 1)

(* C22: lazily_evaluate without a mask draws exactly product(shape) values *)
(* and returns them arranged in the requested shape; whenever              *)
(* product(shape) is 1, for a shape of any number of dimensions, it        *)
(* returns the bare scalar instead of an array.                            *)
UnmaskedLazyCall(s) == last[s].op = "lazily_evaluate" /\ last[s].mask = NoMask

C22_UnmaskedLazyShape ==
    \A s \in Sources :
        UnmaskedLazyCall(s) =>
            LET n == Product(last[s].shape)
            IN  /\ last[s].status = "ok"
                /\ last[s].took = n
                /\ last[s].vals = RngValues(last[s].pre, n)
                /\ rng[s] = RngAdvance(last[s].pre, n)
                /\ IF n = 1
                   THEN last[s].scalar /\ last[s].rshape = << >>
                   ELSE ~last[s].scalar /\ last[s].rshape = last[s].shape

----------------------------------------------------------------------------
(* Copies *)

CallsSinceCopy == SubSeq(hist[copy.of], copy.at + 1, Len(hist[copy.of]))

(* C24: a deep copy of a NumpyRNG has the seed attribute, the              *)
(* parallel_safe flag and the generator state of the original, on every    *)
(* rank and for both parallel_safe settings; afterwards the copy and the   *)
(* original give the same values for the same calls, and drawing from one  *)
(* does not advance the other.                                             *)
C24_CopyEqualsOriginal ==
    copy.of # "" =>
        /\ copy.seed = src[copy.of].seed
        /\ copy.parallel_safe = src[copy.of].parallel_safe
        /\ copy.rng = RngAdvance(copy.g0, copy.drawn)
        /\ rng[copy.of] = RngAdvance(NumpyRNG_init(src[copy.of]), drawn[copy.of])
        /\ copy.hist = CallsSinceCopy =>
              /\ copy.rng = rng[copy.of]
              /\ copy.hist # << >> =>
                    /\ copy.status = last[copy.of].status
                    /\ copy.scalar = last[copy.of].scalar
                    /\ copy.vals = last[copy.of].vals

----------------------------------------------------------------------------
(* Translation tables *)

(* The table has an entry for the name whose keys are the catalog's *)
TableCovers(table, name) ==
    /\ name \in DOMAIN table
    /\ DOMAIN table[name].parameter_map = SetOf(available_distributions[name])

(* C26: every catalog name has an entry in the translation table of        *)
(* NumpyRNG and of GSLRNG whose keys are the catalog's parameter names, so *)
(* a RandomDistribution that passed construction never fails with a        *)
(* name-lookup or key-mismatch error when it draws, on either source.      *)
C26_SourcesInterchangeable ==
    dist.status = "ok" =>
        /\ TableCovers(NumpyRNG_translations, dist.name)
        /\ TableCovers(GSLRNG_translations, dist.name)
        /\ last["a"].status # "KeyError"
        /\ gsl.status # "KeyError"

----------------------------------------------------------------------------
(* Two distributions on one source *)

Requested(n) == IF n = None THEN 1 ELSE n[1]

RECURSIVE RequestedTotal(_)
RequestedTotal(log) ==
    IF log = << >> THEN 0 ELSE Requested(log[1].n) + RequestedTotal(Tail(log))

DistributionOf(by) == IF by = 1 THEN dist ELSE shared.second

(* Each call starts at the stream position the previous call ended at, and *)
(* the values of a call of a distribution that is not clipped are the      *)
(* values at its positions.                                                *)
ConsecutivePositions ==
    \A k \in 1..Len(shared.log) :
        LET c == shared.log[k]
        IN  /\ c.status = "ok"
            /\ c.first = IF k = 1 THEN 0 ELSE shared.log[k - 1].first + shared.log[k - 1].took
            /\ DistributionOf(c.by).name \notin Truncated =>
                  c.vals = RngValues(RngAdvance(NumpyRNG_init(src["a"]), c.first), c.took)

(* No position is consumed by calls of both distributions *)
NoPositionTwice ==
    \A j, k \in 1..Len(shared.log) :
        j < k => shared.log[j].first + shared.log[j].took <= shared.log[k].first

StreamAdvancedBy(total) ==
    /\ drawn["a"] = total
    /\ rng["a"] = RngAdvance(NumpyRNG_init(src["a"]), total)

(* C23 as stated: under any interleaving of the next calls of two          *)
(* distributions bound to one source, each call consumes the positions     *)
(* following those of the previous call, no position is delivered to both, *)
(* and the total advance equals the sum of all requested counts.           *)
C23_SharedStreamRequestedCounts ==
    /\ ConsecutivePositions
    /\ NoPositionTwice
    /\ StreamAdvancedBy(RequestedTotal(shared.log))

Redraws == "normal_clipped" \in {dist.name, shared.second.name}

RECURSIVE TookTotal(_)
TookTotal(log) == IF log = << >> THEN 0 ELSE log[1].took + TookTotal(Tail(log))

(* C23 amended: the same, with the total advance equal to the sum of the   *)
(* requested counts when neither distribution is normal_clipped, and equal *)
(* to the number of values the calls drew, at least that sum, when one is. *)
C23_SharedStream ==
    /\ ConsecutivePositions
    /\ NoPositionTwice
    /\ StreamAdvancedBy(TookTotal(shared.log))
    /\ TookTotal(shared.log) >= RequestedTotal(shared.log)
    /\ ~Redraws => StreamAdvancedBy(RequestedTotal(shared.log))

C23_Witness ==
    /\ Len(shared.log) = 2
    /\ shared.log[1].by = 2 /\ shared.log[2].by = 1
    /\ dist.name = "gamma" /\ shared.second.name = "poisson"
    /\ shared.log[1].n = Some(MaxN) /\ shared.log[2].n = None
    /\ shared.log[2].first = MaxN
    /\ drawn["a"] = MaxN + 1

----------------------------------------------------------------------------
(* The simulator state *)

LastCall == IF state.calls = << >> THEN "__init__" ELSE state.calls[Len(state.calls)]

RECURSIVE ResetsSinceClear(_)
ResetsSinceClear(calls) ==
    IF calls = << >> THEN 0
    ELSE LET op == calls[Len(calls)]
             before == SubSeq(calls, 1, Len(calls) - 1)
         IN  IF op = "clear" THEN 0
             ELSE IF op = "reset" THEN 1 + ResetsSinceClear(before)
             ELSE ResetsSinceClear(before)

Cleared ==
    /\ state.id_counter = 0
    /\ state.recorders = {}
    /\ state.current_sources = << >>
    /\ ~state.running
    /\ state.t_start = 0
    /\ state.segment_counter = 0

StateAtRest ==
    /\ LastCall \in {"__init__", "clear"} => Cleared
    /\ LastCall = "reset" => ~state.running /\ state.t_start = 0
    /\ LastCall \in {"run", "run_until"} => state.running
    /\ state.segment_counter = ResetsSinceClear(state.calls)
    /\ state.segment_counter >= 0

ResetStep ==
    state'.calls = Append(state.calls, "reset") =>
        /\ ~state'.running
        /\ state'.t_start = 0
        /\ state'.segment_counter = state.segment_counter + 1
        /\ state'.id_counter = state.id_counter
        /\ state'.recorders = state.recorders
        /\ state'.current_sources = state.current_sources

(* C27: after construction and after every clear(), id_counter is 0,       *)
(* recorders and current_sources are empty, running is false, t_start is 0 *)
(* and segment_counter is 0; every reset() sets running to false and       *)
(* t_start to 0 and adds exactly 1 to segment_counter, leaving id_counter, *)
(* recorders and current_sources as they were; run() sets running to true; *)
(* so segment_counter is always the number of reset() calls since the most *)
(* recent clear() and never negative.                                      *)
C27_StateLifecycle == [](StateAtRest) /\ [][ResetStep]_vars

C27_Witness ==
    /\ state.calls = <<"id_counter", "reset", "run", "reset">>
    /\ state.segment_counter = 2
    /\ state.id_counter = 1
    /\ ~state.running

====
